---- MODULE Spec2Model ----
(***************************************************************************)
(* Model of the safety gate, the confirmation check, the command router    *)
(* (call_tool) and the process supervisors (run_tc_automation and          *)
(* run_tc_automation_with_progress) of mcp-server/server.py.               *)
(*                                                                         *)
(* Time is counted in ticks of 1/TicksPerSecond seconds so that the float  *)
(* arithmetic of time.time() (elapsed > TTL, int(TTL - elapsed)) is        *)
(* visible between whole seconds.                                          *)
(***************************************************************************)
EXTENDS Integers, Sequences, FiniteSets, TLC

(***************************************************************************)
(* Bounds of the model.                                                    *)
(***************************************************************************)
MaxClock == 3        \* last tick the clock reaches
MaxLines == 2        \* most stderr lines one process writes
PipeCap == 1         \* lines the stderr pipe holds before the process blocks

TicksPerSecond == 2  \* resolution of the modelled time.time()

(***************************************************************************)
(* SAFETY CONFIGURATION (server.py 46-73)                                  *)
(***************************************************************************)
\* int(os.environ.get("TWINCAT_ARMED_TTL", 300)), here with TWINCAT_ARMED_TTL=1
ARMED_MODE_TTL == 1

\* the dangerous list without its last two entries
DANGEROUS_TOOLS_confirmed_only ==
    {"twincat_activate", "twincat_restart", "twincat_deploy"}

DANGEROUS_TOOLS ==
    {"twincat_activate", "twincat_restart", "twincat_deploy",
     "twincat_set_state", "twincat_write_var"}

CONFIRMATION_REQUIRED_TOOLS ==
    {"twincat_activate", "twincat_restart", "twincat_deploy"}

CONFIRM_TOKEN == "CONFIRM"

\* Python None for armed_at (a float otherwise) and for reason (a str otherwise)
NoTime == -1
NoReason == "<None>"

\* _armed_state as the module is imported
InitArmedState == [armed |-> FALSE, armed_at |-> NoTime, reason |-> NoReason]

(***************************************************************************)
(* Strings the code inspects character by character are sequences of       *)
(* one-character strings.                                                  *)
(***************************************************************************)
startswith(s, p) == Len(s) >= Len(p) /\ SubSeq(s, 1, Len(p)) = p

LocalPrefix == <<"1","2","7",".","0",".","0",".","1">>
LocalNetId == <<"1","2","7",".","0",".","0",".","1",".","1",".","1">>
RemoteNetId == <<"5",".","1",".","1",".","1",".","1",".","1">>
\* the net id of the host 127.0.0.10
NearLocalNetId == <<"1","2","7",".","0",".","0",".","1","0",".","1",".","1">>

\* dict.get(key, default)
Get(d, k, default) == IF k \in DOMAIN d THEN d[k] ELSE default

(***************************************************************************)
(* The armed gate (server.py 76-121).  Functions that read the clock take  *)
(* the value time.time() returns as a parameter; functions that write      *)
(* _armed_state return the new state in the field st.                      *)
(***************************************************************************)
\* is_armed taking ARMED_MODE_TTL for minutes
is_armed_ttl_in_minutes(st, t) ==
    IF ~st.armed THEN [ret |-> FALSE, st |-> st]
    ELSE IF st.armed_at = NoTime THEN [ret |-> FALSE, st |-> st]
    ELSE IF t - st.armed_at > ARMED_MODE_TTL * 60 * TicksPerSecond
         THEN [ret |-> FALSE,
               st |-> [st EXCEPT !.armed = FALSE, !.armed_at = NoTime,
                                 !.reason = NoReason]]
         ELSE [ret |-> TRUE, st |-> st]

\* is_armed without the expiry branch of lines 84-90
is_armed_never_expires(st, t) ==
    IF ~st.armed THEN [ret |-> FALSE, st |-> st]
    ELSE IF st.armed_at = NoTime THEN [ret |-> FALSE, st |-> st]
    ELSE [ret |-> TRUE, st |-> st]

\* is_armed that takes an elapsed time equal to the TTL for expired
is_armed_expired_at_ttl(st, t) ==
    IF ~st.armed THEN [ret |-> FALSE, st |-> st]
    ELSE IF st.armed_at = NoTime THEN [ret |-> FALSE, st |-> st]
    ELSE IF t - st.armed_at >= ARMED_MODE_TTL * TicksPerSecond
         THEN [ret |-> FALSE,
               st |-> [st EXCEPT !.armed = FALSE, !.armed_at = NoTime,
                                 !.reason = NoReason]]
         ELSE [ret |-> TRUE, st |-> st]

is_armed(st, t) ==
    IF ~st.armed THEN [ret |-> FALSE, st |-> st]
    ELSE IF st.armed_at = NoTime THEN [ret |-> FALSE, st |-> st]
    ELSE IF t - st.armed_at > ARMED_MODE_TTL * TicksPerSecond
         THEN [ret |-> FALSE,
               st |-> [st EXCEPT !.armed = FALSE, !.armed_at = NoTime,
                                 !.reason = NoReason]]
         ELSE [ret |-> TRUE, st |-> st]

\* int(x) of a float x = n / TicksPerSecond: truncation toward zero
IntOfTicks(n) ==
    IF n >= 0 THEN n \div TicksPerSecond ELSE -((-n) \div TicksPerSecond)

Max(a, b) == IF a >= b THEN a ELSE b

\* get_armed_time_remaining without the max(0, ...) of line 101
get_armed_time_remaining_unclamped(st, t1, t2) ==
    LET a == is_armed(st, t1) IN
    IF ~a.ret THEN [ret |-> 0, st |-> a.st]
    ELSE [ret |-> IntOfTicks(ARMED_MODE_TTL * TicksPerSecond
                             - (t2 - a.st.armed_at)),
          st |-> a.st]

\* get_armed_time_remaining that trusts the stored flag instead of asking
\* is_armed()
get_armed_time_remaining_without_is_armed(st, t1, t2) ==
    IF ~st.armed THEN [ret |-> 0, st |-> st]
    ELSE [ret |-> ARMED_MODE_TTL, st |-> st]

\* t1 is the clock is_armed reads, t2 >= t1 the clock read on line 100
get_armed_time_remaining(st, t1, t2) ==
    LET a == is_armed(st, t1) IN
    IF ~a.ret THEN [ret |-> 0, st |-> a.st]
    ELSE [ret |-> Max(0, IntOfTicks(ARMED_MODE_TTL * TicksPerSecond
                                     - (t2 - a.st.armed_at))),
          st |-> a.st]

\* arm that sets the flag and the reason, and leaves armed_at as it is
arm_sets_flag_only(st, reason, t) ==
    [ret |-> [armed |-> TRUE, ttl_seconds |-> ARMED_MODE_TTL, reason |-> reason],
     st |-> [st EXCEPT !.armed = TRUE, !.reason = reason]]

\* arm that keeps the window of a gate that is armed already
arm_keeps_window(st, reason, t) ==
    [ret |-> [armed |-> TRUE, ttl_seconds |-> ARMED_MODE_TTL, reason |-> reason],
     st |-> [st EXCEPT !.armed = TRUE,
                       !.armed_at = IF st.armed THEN @ ELSE t,
                       !.reason = reason]]

\* the three assignments of lines 106-108 to the keys of _armed_state
arm_dangerous_operations(st, reason, t) ==
    [ret |-> [armed |-> TRUE, ttl_seconds |-> ARMED_MODE_TTL, reason |-> reason],
     st |-> [st EXCEPT !.armed = TRUE, !.armed_at = t, !.reason = reason]]

\* disarm that clears the reason only
disarm_clears_reason_only(st) ==
    [ret |-> [armed |-> FALSE], st |-> [st EXCEPT !.reason = NoReason]]

\* disarm that clears the flag and leaves armed_at and reason
disarm_clears_flag_only(st) ==
    [ret |-> [armed |-> FALSE], st |-> [st EXCEPT !.armed = FALSE]]

disarm_dangerous_operations(st) ==
    [ret |-> [armed |-> FALSE],
     st |-> [st EXCEPT !.armed = FALSE, !.armed_at = NoTime, !.reason = NoReason]]

(***************************************************************************)
(* The guards (server.py 124-172).  A message is modelled by the kind of   *)
(* text it is.                                                             *)
(***************************************************************************)
\* check_armed_for_tool applying the remote-target rule to every tool
check_armed_for_any_remote(tool_name, arguments, st, t) ==
    IF tool_name \notin DANGEROUS_TOOLS
    THEN IF DOMAIN arguments # {}
         THEN LET ams_net_id == Get(arguments, "amsNetId", LocalNetId)
                  a == is_armed(st, t) IN
              IF ams_net_id # <<>> /\ ~startswith(ams_net_id, LocalPrefix)
              THEN IF ~a.ret
                   THEN [allowed |-> FALSE, message |-> "SAFETY_remote_tcunit_arm_first", st |-> a.st]
                   ELSE [allowed |-> TRUE, message |-> "", st |-> a.st]
              ELSE [allowed |-> TRUE, message |-> "", st |-> st]
         ELSE [allowed |-> TRUE, message |-> "", st |-> st]
    ELSE LET a == is_armed(st, t) IN
         IF ~a.ret
         THEN [allowed |-> FALSE, message |-> "SAFETY_arm_first",
               st |-> get_armed_time_remaining(a.st, t, t).st]
         ELSE [allowed |-> TRUE, message |-> "Armed mode active", st |-> a.st]

\* check_armed_for_tool that restarts the window when it lets a dangerous
\* tool through
check_armed_for_tool_sliding(tool_name, arguments, st, t) ==
    IF tool_name \notin DANGEROUS_TOOLS
    THEN IF tool_name = "twincat_run_tcunit" /\ DOMAIN arguments # {}
         THEN LET ams_net_id == Get(arguments, "amsNetId", LocalNetId)
                  a == is_armed(st, t) IN
              IF ams_net_id # <<>> /\ ~startswith(ams_net_id, LocalPrefix)
              THEN IF ~a.ret
                   THEN [allowed |-> FALSE, message |-> "SAFETY_remote_tcunit_arm_first", st |-> a.st]
                   ELSE [allowed |-> TRUE, message |-> "", st |-> a.st]
              ELSE [allowed |-> TRUE, message |-> "", st |-> st]
         ELSE [allowed |-> TRUE, message |-> "", st |-> st]
    ELSE LET a == is_armed(st, t) IN
         IF ~a.ret
         THEN [allowed |-> FALSE, message |-> "SAFETY_arm_first",
               st |-> get_armed_time_remaining(a.st, t, t).st]
         ELSE [allowed |-> TRUE, message |-> "Armed mode active",
               st |-> [a.st EXCEPT !.armed_at = t]]

\* check_armed_for_tool that spends the arming on the dangerous tool it lets
\* through
check_armed_for_tool_one_shot(tool_name, arguments, st, t) ==
    IF tool_name \notin DANGEROUS_TOOLS
    THEN IF tool_name = "twincat_run_tcunit" /\ DOMAIN arguments # {}
         THEN LET ams_net_id == Get(arguments, "amsNetId", LocalNetId)
                  a == is_armed(st, t) IN
              IF ams_net_id # <<>> /\ ~startswith(ams_net_id, LocalPrefix)
              THEN IF ~a.ret
                   THEN [allowed |-> FALSE, message |-> "SAFETY_remote_tcunit_arm_first", st |-> a.st]
                   ELSE [allowed |-> TRUE, message |-> "", st |-> a.st]
              ELSE [allowed |-> TRUE, message |-> "", st |-> st]
         ELSE [allowed |-> TRUE, message |-> "", st |-> st]
    ELSE LET a == is_armed(st, t) IN
         IF ~a.ret
         THEN [allowed |-> FALSE, message |-> "SAFETY_arm_first",
               st |-> get_armed_time_remaining(a.st, t, t).st]
         ELSE [allowed |-> TRUE, message |-> "Armed mode active",
               st |-> disarm_dangerous_operations(a.st).st]

check_armed_for_tool(tool_name, arguments, st, t) ==
    IF tool_name \notin DANGEROUS_TOOLS
    THEN IF tool_name = "twincat_run_tcunit" /\ DOMAIN arguments # {}
         THEN LET ams_net_id == Get(arguments, "amsNetId", LocalNetId)
                  a == is_armed(st, t) IN
              IF ams_net_id # <<>> /\ ~startswith(ams_net_id, LocalPrefix)
              THEN IF ~a.ret
                   THEN [allowed |-> FALSE, message |-> "SAFETY_remote_tcunit_arm_first", st |-> a.st]
                   ELSE [allowed |-> TRUE, message |-> "", st |-> a.st]
              ELSE [allowed |-> TRUE, message |-> "", st |-> st]
         ELSE [allowed |-> TRUE, message |-> "", st |-> st]
    ELSE LET a == is_armed(st, t) IN
         IF ~a.ret
         THEN [allowed |-> FALSE, message |-> "SAFETY_arm_first",
               st |-> get_armed_time_remaining(a.st, t, t).st]
         ELSE [allowed |-> TRUE, message |-> "Armed mode active", st |-> a.st]

(***************************************************************************)
(* Tools of call_tool (server.py 1078-1952).                               *)
(***************************************************************************)
ARM_TOOL == "twincat_arm_dangerous_operations"

\* branches that call run_tc_automation once and format its result
RunTools ==
    {"twincat_build", "twincat_get_info", "twincat_clean", "twincat_set_target",
     "twincat_activate", "twincat_restart", "twincat_deploy", "twincat_list_plcs",
     "twincat_set_boot_project", "twincat_disable_io", "twincat_set_variant",
     "twincat_get_state", "twincat_set_state", "twincat_read_var",
     "twincat_write_var", "twincat_list_tasks", "twincat_configure_task",
     "twincat_configure_rt", "twincat_check_all_objects",
     "twincat_static_analysis", "twincat_get_error_list"}

TCUNIT_TOOL == "twincat_run_tcunit"
ROUTES_TOOL == "twincat_list_routes"

\* tool names a caller sends: the arm tool, every dangerous tool, two harmless
\* tools, the two tools with a branch of their own, and a name that is no tool
ToolNames ==
    {ARM_TOOL, TCUNIT_TOOL, ROUTES_TOOL, "twincat_bogus",
     "twincat_build", "twincat_read_var"} \cup DANGEROUS_TOOLS

(***************************************************************************)
(* Argument maps: Python dicts, a key is present or absent.                *)
(***************************************************************************)
Opt(k, V) == {<<>>} \cup {[x \in {k} |-> v] : v \in V}

ConfirmValues == {"CONFIRM", "confirm", " CONFIRM", ""}
NetIdValues == {<<>>, LocalNetId, RemoteNetId, NearLocalNetId}
ReasonValues == {"", "maintenance"}

\* arguments of a twincat_arm_dangerous_operations call
TimeoutMinuteValues == {1}

ArmArgMaps ==
    {c @@ d : c \in Opt("disarm", BOOLEAN), d \in Opt("reason", ReasonValues)}

\* arguments of a call of any other tool
ToolArgMaps ==
    {a @@ b : a \in Opt("confirm", ConfirmValues), b \in Opt("amsNetId", NetIdValues)}

ArgMaps == ArmArgMaps \cup ToolArgMaps

\* the argument maps the model sends with a tool: the keys its guards and its
\* branch read (amsNetId decides for twincat_run_tcunit only)
ArgsOf(name) ==
    IF name = ARM_TOOL THEN ArmArgMaps
    ELSE IF name = TCUNIT_TOOL THEN {a \in ToolArgMaps : "confirm" \notin DOMAIN a}
    ELSE IF name \in DANGEROUS_TOOLS THEN {a \in ToolArgMaps : "amsNetId" \notin DOMAIN a}
    ELSE {<<>>}

(***************************************************************************)
(* What the external process writes.                                       *)
(***************************************************************************)
StdoutTexts ==
    {"", " \n", "oops", "[1]", "{\"success\": true}", "{\"success\": false}"}

\* str.strip() of the stdout text is empty
StripsToEmpty(s) == s \in {"", " \n"}

\* json.loads: ok = FALSE stands for JSONDecodeError
json_loads(s) ==
    CASE s = "{\"success\": true}"  -> [ok |-> TRUE, py |-> "dict", success |-> TRUE]
      [] s = "{\"success\": false}" -> [ok |-> TRUE, py |-> "dict", success |-> FALSE]
      [] s = "[1]"                  -> [ok |-> TRUE, py |-> "list", success |-> FALSE]
      [] OTHER                      -> [ok |-> FALSE, py |-> "none", success |-> FALSE]

ProgressLine == <<"[","P","R","O","G","R","E","S","S","]"," ","o","k">>
RawLine == <<"w","a","r","n">>
PaddedLine == <<" "," ","a","t">>
StderrLines == {ProgressLine, RawLine, PaddedLine}

\* what the processes the router specification starts write to stderr in
\* their life: those of the harmless run_tc_automation tools at most one
\* line, the others none
RouterScripts(name) ==
    IF name \in RunTools \ DANGEROUS_TOOLS THEN {<<>>, <<RawLine>>} ELSE {<<>>}

(***************************************************************************)
(* Results of the supervisors: the value the function returns.  py is the  *)
(* Python type of the value, errorMessage the kind of message ("" when the *)
(* key is absent), raw the stdout text quoted in the message, stderr the   *)
(* stderr lines the value carries.                                         *)
(***************************************************************************)
MkResult(py, success, errorMessage, raw, stderr, hasProgress, progress) ==
    [py |-> py, success |-> success, errorMessage |-> errorMessage, raw |-> raw,
     stderr |-> stderr, hasProgressMessages |-> hasProgress,
     progressMessages |-> progress]

NoResult == MkResult("none", FALSE, "", "", <<>>, FALSE, <<>>)

RunCompleted_without_stderr(stdout, stderr) ==
    IF ~StripsToEmpty(stdout)
    THEN LET j == json_loads(stdout) IN
         IF j.ok THEN MkResult(j.py, j.success, "", "", <<>>, FALSE, <<>>)
         ELSE MkResult("dict", FALSE, "Invalid JSON output", stdout, <<>>, FALSE, <<>>)
    ELSE IF stderr # <<>>
         THEN MkResult("dict", FALSE, "stderr text", "", stderr, FALSE, <<>>)
         ELSE MkResult("dict", FALSE, "No output from TcAutomation.exe", "", <<>>, FALSE, <<>>)

\* run_tc_automation, lines 241-255: the process has exited
RunCompleted(stdout, stderr) ==
    IF ~StripsToEmpty(stdout)
    THEN LET j == json_loads(stdout) IN
         IF j.ok THEN MkResult(j.py, j.success, "", "", <<>>, FALSE, <<>>)
         ELSE MkResult("dict", FALSE, "Invalid JSON output", stdout, stderr, FALSE, <<>>)
    ELSE IF stderr # <<>>
         THEN MkResult("dict", FALSE, "stderr text", "", stderr, FALSE, <<>>)
         ELSE MkResult("dict", FALSE, "No output from TcAutomation.exe", "", <<>>, FALSE, <<>>)

\* run_tc_automation, lines 257-261
RunTimedOut == MkResult("dict", FALSE, "Command timed out", "", <<>>, FALSE, <<>>)

\* run_tc_automation, lines 262-266
RunRaised == MkResult("dict", FALSE, "str(e)", "", <<>>, FALSE, <<>>)

\* run_tc_automation_with_progress, lines 309-312: the deadline passed
ProgressTimedOut ==
    MkResult("dict", FALSE, "Command timed out", "", <<>>, FALSE, <<>>)

\* run_tc_automation_with_progress, lines 326-349: the process has exited.
\* Line 329 stores into the parsed value; a value that is no dict raises
\* TypeError, which line 344 turns into a failure result.
ProgressCompleted(stdout, progress) ==
    IF ~StripsToEmpty(stdout)
    THEN LET j == json_loads(stdout) IN
         IF j.ok
         THEN IF j.py = "dict"
              THEN MkResult("dict", j.success, "", "", <<>>, TRUE, progress)
              ELSE MkResult("dict", FALSE, "str(e)", "", <<>>, TRUE, progress)
         ELSE MkResult("dict", FALSE, "Invalid JSON output", stdout, <<>>, TRUE, progress)
    ELSE MkResult("dict", FALSE, "No output from TcAutomation.exe", "", <<>>, TRUE, progress)

\* run_tc_automation_with_progress, lines 344-349: Popen raised
ProgressRaised(progress) ==
    MkResult("dict", FALSE, "str(e)", "", <<>>, TRUE, progress)

\* str.strip() of a line: leading and trailing blanks removed
RECURSIVE lstrip(_)
lstrip(s) == IF s # <<>> /\ Head(s) = " " THEN lstrip(Tail(s)) ELSE s
RECURSIVE rstrip(_)
rstrip(s) ==
    IF s # <<>> /\ s[Len(s)] = " " THEN rstrip(SubSeq(s, 1, Len(s) - 1)) ELSE s
strip(s) == rstrip(lstrip(s))

ProgressTag == <<"[","P","R","O","G","R","E","S","S","]">>

\* lines 318-321: what the final drain appends for one queued line
ProgressMessage(line) ==
    IF startswith(line, ProgressTag)
    THEN strip(SubSeq(line, 11, Len(line)))
    ELSE line

(***************************************************************************)
(* Responses of call_tool.  text is the kind of text returned, raised the  *)
(* exception that left call_tool instead ("" when it returned), result the *)
(* supervisor's value the text was formatted from, progress the list       *)
(* run_tc_automation_with_progress returned beside it.                     *)
(***************************************************************************)
Response(text, result) ==
    [text |-> text, raised |-> "", result |-> result, progress |-> <<>>]
Raised(exc, result) ==
    [text |-> "", raised |-> exc, result |-> result, progress |-> <<>>]

\* call_tool has not returned yet
Pending == [text |-> "", raised |-> "", result |-> NoResult, progress |-> <<>>]

\* the formatting code of every branch starts with result.get(...)
FormatResult(result) ==
    IF result.py = "dict" THEN Response("tool output", result)
    ELSE Raised("AttributeError", result)

(***************************************************************************)
(* State.                                                                  *)
(***************************************************************************)
VARIABLES
    now,                \* time.time(), in ticks
    armed_state,        \* _armed_state
    gate_hist,          \* last arm/disarm call_tool performed, and the time of the last arm
    pc,                 \* where call_tool is: "idle", "run", "communicate", "drain"
    call,               \* name and arguments of the current (or last) call_tool,
                        \* whether the gate was effectively armed when it arrived,
                        \* and the armed_at it found
    response,           \* what the last finished call_tool returned or raised
    popen_calls,        \* processes the current (or last) call_tool asked the OS to start
    process,            \* the external process of run_tc_automation_with_progress
    pipe,               \* stderr lines written by the process and not yet read
    thread,             \* stderr_thread: "none", "reading", "holding", "done"
    line,               \* the line read_stderr has read and not yet queued
    stderr_queue,       \* stderr_queue
    comm_stderr,        \* stderr lines process.communicate read itself
    progress_messages,  \* progress_messages
    tasks               \* the call_tool coroutines of the event loop, seen at the
                        \* statements of the gate function each one is running

gate_vars == <<armed_state, gate_hist>>
sup_vars == <<process, pipe, thread, line, stderr_queue, comm_stderr, progress_messages>>
vars == <<now, armed_state, gate_hist, pc, call, response, popen_calls,
          process, pipe, thread, line, stderr_queue, comm_stderr, progress_messages,
          tasks>>

\* the coroutines the event loop has in hand at one time
Tasks == {1, 2}

\* op is the gate function the coroutine runs, at the line it is about to
\* execute ("idle" before any, "done" after the return); t and t2 are the
\* clock values it read, start and end the armed state it found and left,
\* ret what the function returned, exc what it raised
NoTask ==
    [op |-> "none", at |-> "idle", reason |-> NoReason, t |-> NoTime,
     t2 |-> NoTime, start |-> InitArmedState, end |-> InitArmedState,
     ret |-> "none", exc |-> ""]

\* subprocess.run(..., timeout=300) on line 237, in seconds
RUN_TIMEOUT == 300

\* timeout_minutes when the caller gives no timeoutMinutes (line 1834)
DEFAULT_TIMEOUT_MINUTES == 10

timeout_seconds_without_buffer(timeout_minutes) == timeout_minutes * 60

\* line 304: the timeout process.communicate gets, in seconds
timeout_seconds(timeout_minutes) == timeout_minutes * 60 + 60

\* the exit statuses a process ends with: 0, and one that is not 0
ExitStatuses == {0, 1}

\* the exit status of the processes of the router specification; the code
\* never reads returncode, and both statuses are explored where the
\* supervisors run on their own
RouterExitStatuses == {0}

\* returncode of a process that has not ended by itself
NoReturncode == -1

\* nominal is the time limit the caller asked for, timeout the one the wait
\* for the process was given, waited the time that wait has lasted (seconds),
\* returncode the exit status of the process
NoProcess ==
    [state |-> "none", stdout |-> "", script |-> <<>>, written |-> 0,
     nominal |-> 0, timeout |-> 0, waited |-> 0, returncode |-> NoReturncode]

\* no supervisor with progress has run in this call
SupReset ==
    /\ process' = NoProcess
    /\ pipe' = <<>>
    /\ thread' = "none"
    /\ line' = <<>>
    /\ stderr_queue' = <<>>
    /\ comm_stderr' = <<>>
    /\ progress_messages' = <<>>

Init ==
    /\ now = 0
    /\ armed_state = InitArmedState
    /\ gate_hist = [op |-> "none", arm_at |-> NoTime]
    /\ pc = "idle"
    /\ call = [name |-> "", arguments |-> <<>>, armed |-> FALSE, since |-> NoTime]
    /\ response = Pending
    /\ popen_calls = 0
    /\ process = NoProcess
    /\ pipe = <<>>
    /\ thread = "none"
    /\ line = <<>>
    /\ stderr_queue = <<>>
    /\ comm_stderr = <<>>
    /\ progress_messages = <<>>
    /\ tasks = [i \in Tasks |-> NoTask]

(***************************************************************************)
(* check_confirmation (server.py 156-172)                                  *)
(***************************************************************************)
\* check_confirmation trimming the token before it compares
check_confirmation_trimmed(tool_name, arguments) ==
    IF tool_name \notin CONFIRMATION_REQUIRED_TOOLS
    THEN [allowed |-> TRUE, message |-> ""]
    ELSE IF Get(arguments, "confirm", "") \notin {CONFIRM_TOKEN, " CONFIRM"}
         THEN [allowed |-> FALSE, message |-> "CONFIRMATION_REQUIRED"]
         ELSE [allowed |-> TRUE, message |-> ""]

\* check_confirmation comparing without regard to case
check_confirmation_caseless(tool_name, arguments) ==
    IF tool_name \notin CONFIRMATION_REQUIRED_TOOLS
    THEN [allowed |-> TRUE, message |-> ""]
    ELSE IF Get(arguments, "confirm", "") \notin {CONFIRM_TOKEN, "confirm"}
         THEN [allowed |-> FALSE, message |-> "CONFIRMATION_REQUIRED"]
         ELSE [allowed |-> TRUE, message |-> ""]

\* check_confirmation waiving the token while _armed_state says armed
check_confirmation_waived_when_armed(tool_name, arguments) ==
    IF tool_name \notin CONFIRMATION_REQUIRED_TOOLS
    THEN [allowed |-> TRUE, message |-> ""]
    ELSE IF Get(arguments, "confirm", "") # CONFIRM_TOKEN /\ ~armed_state.armed
         THEN [allowed |-> FALSE, message |-> "CONFIRMATION_REQUIRED"]
         ELSE [allowed |-> TRUE, message |-> ""]

check_confirmation(tool_name, arguments) ==
    IF tool_name \notin CONFIRMATION_REQUIRED_TOOLS
    THEN [allowed |-> TRUE, message |-> ""]
    ELSE IF Get(arguments, "confirm", "") # CONFIRM_TOKEN
         THEN [allowed |-> FALSE, message |-> "CONFIRMATION_REQUIRED"]
         ELSE [allowed |-> TRUE, message |-> ""]

TTLTicks == ARMED_MODE_TTL * TicksPerSecond

\* "effectively armed": armed, and now - armed_at <= TTL
EffectivelyArmed(st, t) ==
    /\ st.armed
    /\ st.armed_at # NoTime
    /\ t - st.armed_at <= TTLTicks

\* the clock advances, whatever call_tool is doing
Tick ==
    /\ now < MaxClock
    /\ now' = now + 1
    /\ UNCHANGED <<gate_vars, pc, call, response, popen_calls, sup_vars>>
    /\ UNCHANGED tasks

\* call_tool returns (or raises) without a process left to wait for
Return(r) ==
    /\ response' = r
    /\ pc' = "idle"

(***************************************************************************)
(* The gate functions statement by statement, as the call_tool coroutines  *)
(* of the event loop execute them (asyncio.run(main()), line 1967).        *)
(***************************************************************************)
GateOps ==
    {"arm_dangerous_operations", "disarm_dangerous_operations", "is_armed",
     "get_armed_time_remaining"}

\* the first line of each function
FirstLine(op) ==
    CASE op = "arm_dangerous_operations"    -> "L106"
      [] op = "disarm_dangerous_operations" -> "L118"
      [] op = "is_armed"                    -> "L78"
      [] op = "get_armed_time_remaining"    -> "L78"

Executing(i) == tasks[i].at \notin {"idle", "done"}

\* threads instead of coroutines: a function starts whatever the others do
LoopIsFree_preemptive == TRUE

\* call_tool (lines 1073-1952) holds no await: the event loop runs one
\* coroutine from its first statement to its return before it runs another
LoopIsFree == pc = "idle" /\ \A i \in Tasks : ~Executing(i)

\* a coroutine reaches a call of a gate function
StartOp(i, op, reason) ==
    /\ LoopIsFree
    /\ ~Executing(i)
    /\ tasks' = [tasks EXCEPT ![i] =
                    [NoTask EXCEPT !.op = op, !.at = FirstLine(op),
                                   !.reason = reason, !.start = armed_state,
                                   !.end = armed_state]]
    /\ UNCHANGED <<now, gate_vars, pc, call, response, popen_calls, sup_vars>>

\* the function returns ret, leaving the armed state as st
Finish(i, ret, st) ==
    tasks' = [tasks EXCEPT ![i].at = "done", ![i].ret = ret, ![i].end = st]

Goto(i, l) == tasks' = [tasks EXCEPT ![i].at = l]

\* is_armed returns b: to its caller in get_armed_time_remaining (line 97),
\* or to call_tool
IsArmedReturns(i, b, st) ==
    IF tasks[i].op = "get_armed_time_remaining"
    THEN IF b THEN Goto(i, "L100") ELSE Finish(i, 0, st)
    ELSE Finish(i, b, st)

\* one statement of the function coroutine i is in
StepOp(i) ==
    LET k == tasks[i] IN
    /\ Executing(i)
    /\ CASE k.at = "L106" ->
              /\ armed_state' = [armed_state EXCEPT !.armed = TRUE]
              /\ Goto(i, "L107")
         [] k.at = "L107" ->
              /\ armed_state' = [armed_state EXCEPT !.armed_at = now]
              /\ tasks' = [tasks EXCEPT ![i].at = "L108", ![i].t = now]
         [] k.at = "L108" ->
              /\ armed_state' = [armed_state EXCEPT !.reason = k.reason]
              /\ Finish(i, [armed |-> TRUE, ttl_seconds |-> ARMED_MODE_TTL,
                            reason |-> k.reason], armed_state')
         [] k.at = "L118" ->
              /\ armed_state' = [armed_state EXCEPT !.armed = FALSE]
              /\ Goto(i, "L119")
         [] k.at = "L119" ->
              /\ armed_state' = [armed_state EXCEPT !.armed_at = NoTime]
              /\ Goto(i, "L120")
         [] k.at = "L120" ->
              /\ armed_state' = [armed_state EXCEPT !.reason = NoReason]
              /\ Finish(i, [armed |-> FALSE], armed_state')
         [] k.at = "L78" ->
              /\ UNCHANGED armed_state
              /\ IF ~armed_state.armed
                 THEN IsArmedReturns(i, FALSE, armed_state)
                 ELSE Goto(i, "L81")
         [] k.at = "L81" ->
              /\ UNCHANGED armed_state
              /\ IF armed_state.armed_at = NoTime
                 THEN IsArmedReturns(i, FALSE, armed_state)
                 ELSE Goto(i, "L84")
         [] k.at = "L84" ->
              /\ UNCHANGED armed_state
              /\ IF armed_state.armed_at = NoTime
                 THEN tasks' = [tasks EXCEPT ![i].at = "done",
                                             ![i].exc = "TypeError"]
                 ELSE IF now - armed_state.armed_at > ARMED_MODE_TTL * TicksPerSecond
                      THEN tasks' = [tasks EXCEPT ![i].at = "L87", ![i].t = now]
                      ELSE tasks' = [[tasks EXCEPT ![i].t = now] EXCEPT ![i] =
                                        IF k.op = "get_armed_time_remaining"
                                        THEN [@ EXCEPT !.at = "L100"]
                                        ELSE [@ EXCEPT !.at = "done", !.ret = TRUE,
                                                       !.end = armed_state]]
         [] k.at = "L87" ->
              /\ armed_state' = [armed_state EXCEPT !.armed = FALSE]
              /\ Goto(i, "L88")
         [] k.at = "L88" ->
              /\ armed_state' = [armed_state EXCEPT !.armed_at = NoTime]
              /\ Goto(i, "L89")
         [] k.at = "L89" ->
              /\ armed_state' = [armed_state EXCEPT !.reason = NoReason]
              /\ IsArmedReturns(i, FALSE, armed_state')
         [] k.at = "L100" ->
              /\ UNCHANGED armed_state
              /\ IF armed_state.armed_at = NoTime
                 THEN tasks' = [tasks EXCEPT ![i].at = "done",
                                             ![i].exc = "TypeError"]
                 ELSE tasks' = [tasks EXCEPT
                         ![i].at = "done", ![i].t2 = now, ![i].end = armed_state,
                         ![i].ret = Max(0, IntOfTicks(ARMED_MODE_TTL * TicksPerSecond
                                               - (now - armed_state.armed_at)))]
    /\ UNCHANGED <<now, gate_hist, pc, call, response, popen_calls, sup_vars>>

GateNext ==
    \/ Tick
    \/ \E i \in Tasks, op \in GateOps :
           \E reason \in IF op = "arm_dangerous_operations"
                          THEN ReasonValues ELSE {NoReason} :
               StartOp(i, op, reason)
    \/ \E i \in Tasks : StepOp(i)

GateSpec == Init /\ [][GateNext]_vars

(***************************************************************************)
(* call_tool, lines 1078-1100: the arm/disarm tool                         *)
(***************************************************************************)
\* the arm/disarm tool with its disarm flag ignored
ArmBranch_ignores_disarm(arguments) ==
    LET reason == Get(arguments, "reason", "No reason provided") IN
    /\ armed_state' = arm_dangerous_operations(armed_state, reason, now).st
    /\ gate_hist' = [op |-> "arm", arm_at |-> now]
    /\ Return(Response("ARMED", NoResult))
    /\ popen_calls' = 0
    /\ SupReset

ArmBranch(arguments) ==
    LET disarm == Get(arguments, "disarm", FALSE)
        reason == Get(arguments, "reason", "No reason provided") IN
    /\ IF disarm
       THEN /\ armed_state' = disarm_dangerous_operations(armed_state).st
            /\ gate_hist' = [gate_hist EXCEPT !.op = "disarm"]
            /\ Return(Response("DISARMED", NoResult))
       ELSE /\ armed_state' = arm_dangerous_operations(armed_state, reason, now).st
            /\ gate_hist' = [op |-> "arm", arm_at |-> now]
            /\ Return(Response("ARMED", NoResult))
    /\ popen_calls' = 0
    /\ SupReset

(***************************************************************************)
(* call_tool, lines 1115-1952: the branch of the tool, after both guards   *)
(***************************************************************************)
\* the process started and left to itself: call_tool returns at once
RunBranch_detached(script) ==
    \E exe_found \in BOOLEAN, popen_ok \in BOOLEAN :
        /\ IF ~exe_found
           THEN popen_calls' = 0 /\ Return(Raised("FileNotFoundError", NoResult))
           ELSE /\ popen_calls' = 1
                /\ IF popen_ok
                   THEN Return(Response("started", NoResult))
                   ELSE Return(FormatResult(RunRaised))
        /\ process' = [NoProcess EXCEPT !.script = script,
                                        !.state = IF exe_found /\ popen_ok
                                                  THEN "running" ELSE "none",
                                        !.nominal = RUN_TIMEOUT,
                                        !.timeout = RUN_TIMEOUT]
        /\ pipe' = <<>> /\ thread' = "none" /\ line' = <<>> /\ stderr_queue' = <<>>
        /\ comm_stderr' = <<>> /\ progress_messages' = <<>>

\* run_tc_automation up to the start of the process (lines 228-239)
RunBranch(script) ==
    \E exe_found \in BOOLEAN, popen_ok \in BOOLEAN :
        /\ IF ~exe_found
           THEN popen_calls' = 0 /\ Return(Raised("FileNotFoundError", NoResult))
           ELSE /\ popen_calls' = 1
                /\ IF popen_ok
                   THEN pc' = "run" /\ response' = Pending
                   ELSE Return(FormatResult(RunRaised))
        /\ process' = [NoProcess EXCEPT !.script = script,
                                        !.state = IF exe_found /\ popen_ok
                                                  THEN "running" ELSE "none",
                                        !.nominal = RUN_TIMEOUT,
                                        !.timeout = RUN_TIMEOUT]
        /\ pipe' = <<>> /\ thread' = "none" /\ line' = <<>> /\ stderr_queue' = <<>>
        /\ comm_stderr' = <<>> /\ progress_messages' = <<>>

\* run_tc_automation_with_progress up to process.communicate (lines 274-306)
ProgressBranch(arguments, script) ==
    \E exe_found \in BOOLEAN, popen_ok \in BOOLEAN :
        LET timeout_minutes ==
                Get(arguments, "timeoutMinutes", DEFAULT_TIMEOUT_MINUTES) IN
        IF ~exe_found
        THEN popen_calls' = 0 /\ Return(Raised("FileNotFoundError", NoResult)) /\ SupReset
        ELSE /\ popen_calls' = 1
             /\ IF popen_ok
                THEN /\ pc' = "communicate"
                     /\ process' = [state |-> "running", stdout |-> "",
                                    script |-> script, written |-> 0,
                                    nominal |-> timeout_minutes * 60,
                                    timeout |-> timeout_seconds(timeout_minutes),
                                    waited |-> 0, returncode |-> NoReturncode]
                     /\ thread' = "reading"
                     /\ pipe' = <<>> /\ line' = <<>> /\ stderr_queue' = <<>>
                     /\ comm_stderr' = <<>> /\ progress_messages' = <<>>
                     /\ response' = Pending
                ELSE Return(FormatResult(ProgressRaised(<<>>))) /\ SupReset

\* twincat_list_routes reads StaticRoutes.xml and starts no process (1707-1763)
RoutesBranch ==
    \E text \in {"Could not find TwinCAT StaticRoutes.xml", "routes"} :
        /\ Return(Response(text, NoResult))
        /\ popen_calls' = 0
        /\ SupReset

UnknownBranch ==
    /\ Return(Response("Unknown tool", NoResult))
    /\ popen_calls' = 0
    /\ SupReset

\* the chain of branches ending in a run of the executable instead of the
\* answer for an unknown name
Dispatch_runs_by_default(name, arguments, script) ==
    IF name = ROUTES_TOOL THEN RoutesBranch
    ELSE IF name = TCUNIT_TOOL THEN ProgressBranch(arguments, script)
    ELSE RunBranch(script)

Dispatch(name, arguments, script) ==
    IF name \in RunTools THEN RunBranch(script)
    ELSE IF name = ROUTES_TOOL THEN RoutesBranch
    ELSE IF name = TCUNIT_TOOL THEN ProgressBranch(arguments, script)
    ELSE UnknownBranch

(***************************************************************************)
(* call_tool, lines 1074-1113                                              *)
(***************************************************************************)
\* call_tool asking for the confirmation before it looks at the gate
CallTool_confirmation_first(name, arguments, script) ==
    /\ pc = "idle"
    /\ call' = [name |-> name, arguments |-> arguments,
                armed |-> EffectivelyArmed(armed_state, now),
                since |-> armed_state.armed_at]
    /\ UNCHANGED now
    /\ IF name = ARM_TOOL
       THEN ArmBranch(arguments)
       ELSE LET g == check_armed_for_tool(name, arguments, armed_state, now)
                c == check_confirmation(name, arguments) IN
            /\ UNCHANGED gate_hist
            /\ IF ~c.allowed
               THEN /\ Return(Response(c.message, NoResult)) /\ popen_calls' = 0
                    /\ SupReset /\ UNCHANGED armed_state
               ELSE /\ armed_state' = g.st
                    /\ IF ~g.allowed
                       THEN Return(Response(g.message, NoResult)) /\ popen_calls' = 0 /\ SupReset
                       ELSE Dispatch(name, arguments, script)
    /\ UNCHANGED tasks

\* script is what the process would write to stderr if this call starts one
\* call_tool if it awaited its process: a call starts while another waits
CallTool_reentrant(name, arguments, script) ==
    /\ call' = [name |-> name, arguments |-> arguments,
                armed |-> EffectivelyArmed(armed_state, now),
                since |-> armed_state.armed_at]
    /\ UNCHANGED now
    /\ IF name = ARM_TOOL
       THEN ArmBranch(arguments)
       ELSE LET g == check_armed_for_tool(name, arguments, armed_state, now)
                c == check_confirmation(name, arguments) IN
            /\ armed_state' = g.st
            /\ UNCHANGED gate_hist
            /\ IF ~g.allowed
               THEN Return(Response(g.message, NoResult)) /\ popen_calls' = 0 /\ SupReset
               ELSE IF ~c.allowed
                    THEN Return(Response(c.message, NoResult)) /\ popen_calls' = 0 /\ SupReset
                    ELSE Dispatch(name, arguments, script)
    /\ UNCHANGED tasks

CallTool(name, arguments, script) ==
    /\ pc = "idle"
    /\ call' = [name |-> name, arguments |-> arguments,
                armed |-> EffectivelyArmed(armed_state, now),
                since |-> armed_state.armed_at]
    /\ UNCHANGED now
    /\ IF name = ARM_TOOL
       THEN ArmBranch(arguments)
       ELSE LET g == check_armed_for_tool(name, arguments, armed_state, now)
                c == check_confirmation(name, arguments) IN
            /\ armed_state' = g.st
            /\ UNCHANGED gate_hist
            /\ IF ~g.allowed
               THEN Return(Response(g.message, NoResult)) /\ popen_calls' = 0 /\ SupReset
               ELSE IF ~c.allowed
                    THEN Return(Response(c.message, NoResult)) /\ popen_calls' = 0 /\ SupReset
                    ELSE Dispatch(name, arguments, script)
    /\ UNCHANGED tasks

(***************************************************************************)
(* Time passes while subprocess.run (line 233) or process.communicate      *)
(* (line 306) waits: to the moment the caller's own limit is over, then to *)
(* the moment the timeout given to the wait is over.                       *)
(***************************************************************************)
Wait ==
    /\ pc \in {"run", "communicate"}
    /\ process.waited < process.timeout
    /\ process' = [process EXCEPT !.waited =
                       IF @ < process.nominal THEN process.nominal
                       ELSE process.timeout]
    /\ UNCHANGED <<now, gate_vars, pc, call, response, popen_calls, pipe, thread,
                   line, stderr_queue, comm_stderr, progress_messages>>
    /\ UNCHANGED tasks

(***************************************************************************)
(* run_tc_automation, lines 233-261: subprocess.run waits for the process, *)
(* reads both of its channels to the end, and kills it at the deadline.    *)
(***************************************************************************)
RunComplete(returncode) ==
    /\ pc = "run"
    /\ \E stdout \in StdoutTexts :
           /\ process' = [process EXCEPT !.state = "exited", !.stdout = stdout,
                                          !.written = Len(process.script),
                                          !.returncode = returncode]
           /\ comm_stderr' = process.script
           /\ Return(FormatResult(RunCompleted(stdout, process.script)))
    /\ UNCHANGED <<now, gate_vars, call, popen_calls, pipe, thread,
                   line, stderr_queue, progress_messages>>
    /\ UNCHANGED tasks

\* subprocess.run giving up when the armed window closes
RunTimeout_at_expiry ==
    /\ pc = "run"
    /\ process.waited >= process.timeout \/ ~EffectivelyArmed(armed_state, now)
    /\ \E n \in 0..Len(process.script) :
           /\ process' = [process EXCEPT !.state = "killed", !.written = n]
           /\ comm_stderr' = SubSeq(process.script, 1, n)
    /\ Return(FormatResult(RunTimedOut))
    /\ UNCHANGED <<now, gate_vars, call, popen_calls, pipe, thread,
                   line, stderr_queue, progress_messages>>
    /\ UNCHANGED tasks

\* the stderr lines read before the deadline stay in the TimeoutExpired exception
RunTimeout ==
    /\ pc = "run"
    /\ process.waited >= process.timeout
    /\ \E n \in 0..Len(process.script) :
           /\ process' = [process EXCEPT !.state = "killed", !.written = n]
           /\ comm_stderr' = SubSeq(process.script, 1, n)
    /\ Return(FormatResult(RunTimedOut))
    /\ UNCHANGED <<now, gate_vars, call, popen_calls, pipe, thread,
                   line, stderr_queue, progress_messages>>
    /\ UNCHANGED tasks

(***************************************************************************)
(* The external process started on line 280: it writes stderr lines of its *)
(* choice, blocking while the pipe is full, and exits.  process.script is  *)
(* what it has written so far.                                             *)
(***************************************************************************)
ProcWrite ==
    /\ process.state = "running"
    /\ process.written < MaxLines
    /\ Len(pipe) < PipeCap
    /\ \E l \in StderrLines :
           /\ pipe' = Append(pipe, l)
           /\ process' = [process EXCEPT !.script = Append(@, l),
                                          !.written = @ + 1]
    /\ UNCHANGED <<now, gate_vars, pc, call, response, popen_calls, thread, line,
                   stderr_queue, comm_stderr, progress_messages>>
    /\ UNCHANGED tasks

ProcExit(returncode) ==
    /\ process.state = "running"
    /\ process.written = Len(process.script)
    /\ \E stdout \in StdoutTexts :
           process' = [process EXCEPT !.state = "exited", !.stdout = stdout,
                                      !.returncode = returncode]
    /\ UNCHANGED <<now, gate_vars, pc, call, response, popen_calls, pipe, thread,
                   line, stderr_queue, comm_stderr, progress_messages>>
    /\ UNCHANGED tasks

(***************************************************************************)
(* read_stderr, lines 294-298, running in stderr_thread                    *)
(***************************************************************************)
\* process.stderr.readline() returns a line
ThreadReadline ==
    /\ thread = "reading"
    /\ pipe # <<>>
    /\ line' = Head(pipe)
    /\ pipe' = Tail(pipe)
    /\ thread' = "holding"
    /\ UNCHANGED <<now, gate_vars, pc, call, response, popen_calls, process,
                   stderr_queue, comm_stderr, progress_messages>>
    /\ UNCHANGED tasks

\* stderr_queue.put(line.strip())
ThreadPut ==
    /\ thread = "holding"
    /\ stderr_queue' = Append(stderr_queue, strip(line))
    /\ line' = <<>>
    /\ thread' = "reading"
    /\ UNCHANGED <<now, gate_vars, pc, call, response, popen_calls, process, pipe,
                   comm_stderr, progress_messages>>
    /\ UNCHANGED tasks

\* readline() returns '' at end of file; process.stderr.close()
ThreadEOF ==
    /\ thread = "reading"
    /\ pipe = <<>>
    /\ process.state \in {"exited", "killed"}
    /\ thread' = "done"
    /\ UNCHANGED <<now, gate_vars, pc, call, response, popen_calls, process, pipe,
                   line, stderr_queue, comm_stderr, progress_messages>>
    /\ UNCHANGED tasks

(***************************************************************************)
(* run_tc_automation_with_progress, lines 303-349, in the caller's thread  *)
(***************************************************************************)
\* process.communicate reads stderr too: stderr=subprocess.PIPE on line 283
CommReadStderr ==
    /\ pc = "communicate"
    /\ pipe # <<>>
    /\ comm_stderr' = Append(comm_stderr, Head(pipe))
    /\ pipe' = Tail(pipe)
    /\ UNCHANGED <<now, gate_vars, pc, call, response, popen_calls, process, thread,
                   line, stderr_queue, progress_messages>>
    /\ UNCHANGED tasks

\* process.communicate returns: the process has exited and its pipes are at EOF
CommReturn ==
    /\ pc = "communicate"
    /\ process.state = "exited"
    /\ pipe = <<>>
    /\ pc' = "drain"
    /\ UNCHANGED <<now, gate_vars, call, response, popen_calls, sup_vars>>
    /\ UNCHANGED tasks

\* process.communicate() called without its timeout
ProgressTimeout_no_deadline ==
    /\ FALSE
    /\ pc = "communicate"
    /\ process.state = "running"
    /\ process' = [process EXCEPT !.state = "killed"]
    /\ Return([FormatResult(ProgressTimedOut) EXCEPT !.progress = progress_messages])
    /\ UNCHANGED <<now, gate_vars, call, popen_calls, pipe, thread, line,
                   stderr_queue, comm_stderr, progress_messages>>
    /\ UNCHANGED tasks

\* lines 307-312: TimeoutExpired, process.kill(), return
ProgressTimeout ==
    /\ pc = "communicate"
    /\ process.state = "running"
    /\ process.waited >= process.timeout
    /\ process' = [process EXCEPT !.state = "killed"]
    /\ Return([FormatResult(ProgressTimedOut) EXCEPT !.progress = progress_messages])
    /\ UNCHANGED <<now, gate_vars, call, popen_calls, pipe, thread, line,
                   stderr_queue, comm_stderr, progress_messages>>
    /\ UNCHANGED tasks

\* the loop taking the newest line of stderr_queue first
DrainStep_newest_first ==
    /\ pc = "drain"
    /\ stderr_queue # <<>>
    /\ progress_messages' = Append(progress_messages,
                                   ProgressMessage(stderr_queue[Len(stderr_queue)]))
    /\ stderr_queue' = SubSeq(stderr_queue, 1, Len(stderr_queue) - 1)
    /\ UNCHANGED <<now, gate_vars, pc, call, response, popen_calls, process, pipe,
                   thread, line, comm_stderr>>
    /\ UNCHANGED tasks

\* lines 315-323: one turn of the loop that empties stderr_queue
DrainStep ==
    /\ pc = "drain"
    /\ stderr_queue # <<>>
    /\ progress_messages' = Append(progress_messages, ProgressMessage(Head(stderr_queue)))
    /\ stderr_queue' = Tail(stderr_queue)
    /\ UNCHANGED <<now, gate_vars, pc, call, response, popen_calls, process, pipe,
                   thread, line, comm_stderr>>
    /\ UNCHANGED tasks

\* stderr_queue.empty(): lines 325-342, then the formatting of call_tool
DrainReturn ==
    /\ pc = "drain"
    /\ stderr_queue = <<>>
    /\ Return([FormatResult(ProgressCompleted(process.stdout, progress_messages))
                 EXCEPT !.progress = progress_messages])
    /\ UNCHANGED <<now, gate_vars, call, popen_calls, sup_vars>>
    /\ UNCHANGED tasks

(***************************************************************************)
(* The router: every tool, the clock, and processes that keep stderr quiet *)
(* while run_tc_automation_with_progress supervises them.                  *)
(***************************************************************************)
Next ==
    \/ Tick
    \/ Wait
    \/ \E name \in ToolNames :
           \E arguments \in ArgsOf(name), script \in RouterScripts(name) :
               CallTool(name, arguments, script)
    \/ \E returncode \in RouterExitStatuses : RunComplete(returncode)
    \/ RunTimeout
    \/ \E returncode \in RouterExitStatuses : ProcExit(returncode)
    \/ ThreadEOF
    \/ CommReturn
    \/ ProgressTimeout
    \/ DrainReturn

Spec == Init /\ [][Next]_vars

(***************************************************************************)
(* The two supervisors on their own: twincat_run_tcunit calls             *)
(* (run_tc_automation_with_progress) and twincat_build calls               *)
(* (run_tc_automation) whose process writes up to MaxLines lines, the gate *)
(* left as it starts.                                                      *)
(***************************************************************************)
SupNext ==
    \/ \E arguments \in Opt("timeoutMinutes", TimeoutMinuteValues) :
           CallTool(TCUNIT_TOOL, arguments, <<>>)
    \/ \E script \in RouterScripts("twincat_build") :
           CallTool("twincat_build", <<>>, script)
    \/ Wait
    \/ \E returncode \in ExitStatuses : RunComplete(returncode)
    \/ RunTimeout
    \/ ProcWrite
    \/ \E returncode \in ExitStatuses : ProcExit(returncode)
    \/ ThreadReadline
    \/ ThreadPut
    \/ ThreadEOF
    \/ CommReadStderr
    \/ CommReturn
    \/ ProgressTimeout
    \/ DrainStep
    \/ DrainReturn

SupSpec == Init /\ [][SupNext]_vars

(***************************************************************************)
(* The supervisors under a fair scheduler: time passes while the caller    *)
(* waits, a raised TimeoutExpired is handled, and the caller's thread and  *)
(* stderr_thread each take their next step when they can.  Nothing is      *)
(* assumed of the process: it may stop writing and never exit.             *)
(***************************************************************************)
LiveSupSpec ==
    /\ SupSpec
    /\ WF_vars(Wait)
    /\ WF_vars(RunTimeout)
    /\ WF_vars(ProgressTimeout)
    /\ WF_vars(CommReadStderr)
    /\ WF_vars(CommReturn)
    /\ WF_vars(DrainStep)
    /\ WF_vars(DrainReturn)
    /\ WF_vars(ThreadReadline)
    /\ WF_vars(ThreadPut)
    /\ WF_vars(ThreadEOF)

(***************************************************************************)
(* Properties.                                                             *)
(***************************************************************************)
\* a call_tool has come back: response is the answer to call
Returned == pc = "idle" /\ call.name # ""

\* C1: a call_tool of a dangerous tool asks for a process only when the gate
\* is effectively armed at the call; otherwise it returns the denial that
\* points to twincat_arm_dangerous_operations and starts nothing.
C1_DangerousNeedsArmed ==
    call.name \in DANGEROUS_TOOLS =>
        /\ popen_calls > 0 => call.armed
        /\ ~call.armed =>
             /\ pc = "idle"
             /\ response = Response("SAFETY_arm_first", NoResult)
             /\ popen_calls = 0
             /\ process.state = "none"

\* a dangerous tool was called after the armed window had run out, and refused
C1_Witness ==
    /\ Returned
    /\ call.name \in DANGEROUS_TOOLS
    /\ gate_hist.op = "arm"
    /\ now - gate_hist.arm_at > TTLTicks
    /\ ~call.armed
    /\ response.text = "SAFETY_arm_first"
    /\ popen_calls = 0

\* C2: activate, restart and deploy reach the process only when, in that
\* same call, the gate is effectively armed and confirm is exactly CONFIRM.
C2_ConfirmAndArmed ==
    call.name \in CONFIRMATION_REQUIRED_TOOLS /\ popen_calls > 0 =>
        /\ call.armed
        /\ "confirm" \in DOMAIN call.arguments
        /\ call.arguments["confirm"] = "CONFIRM"

\* twincat_activate got its process: armed and confirmed
C2_Witness ==
    /\ pc = "run"
    /\ call.name = "twincat_activate"
    /\ Get(call.arguments, "confirm", "") = "CONFIRM"
    /\ call.armed
    /\ popen_calls = 1

ArmDenials == {"SAFETY_arm_first", "SAFETY_remote_tcunit_arm_first"}

\* the argument map sends twincat_run_tcunit to a PLC the guard takes for remote
RemoteTarget(arguments) ==
    /\ "amsNetId" \in DOMAIN arguments
    /\ arguments["amsNetId"] # <<>>
    /\ ~startswith(arguments["amsNetId"], LocalPrefix)

\* C3 as claimed: the armed guard allows every tool outside the dangerous set,
\* whatever its arguments and whether the gate is armed or not.
C3_NonDangerousAlwaysAllowed ==
    call.name \notin DANGEROUS_TOOLS =>
        check_armed_for_tool(call.name, call.arguments, armed_state, now).allowed

\* C3 as amended: the armed guard allows every tool outside the dangerous set
\* except twincat_run_tcunit aimed at a remote target, armed or not; such a
\* call is never answered with an armed-mode denial.
C3_NonDangerousAllowedUnlessRemoteTcunit ==
    /\ \A name \in ToolNames \ DANGEROUS_TOOLS : \A arguments \in ArgMaps :
          ~(name = TCUNIT_TOOL /\ RemoteTarget(arguments)) =>
              /\ check_armed_for_tool(name, arguments, armed_state, now).allowed
              /\ check_armed_for_tool(name, arguments, armed_state, now).message = ""
    /\ ( /\ Returned
         /\ call.name \notin DANGEROUS_TOOLS
         /\ ~(call.name = TCUNIT_TOOL /\ RemoteTarget(call.arguments)) )
       => response.text \notin ArmDenials

\* a harmless tool went through to its process while the gate was not armed
C3_Witness ==
    /\ Returned
    /\ call.name = "twincat_build"
    /\ ~call.armed
    /\ ~armed_state.armed
    /\ popen_calls = 1
    /\ response.text = "tool output"

\* C4: right after arm, is_armed() is true; once more than the TTL has passed
\* since that arm, is_armed() is false and get_armed_time_remaining() is 0.
C4_ArmedThenExpires ==
    (gate_hist.op = "arm" /\ armed_state.armed) =>
        /\ armed_state.armed_at = gate_hist.arm_at
        /\ now = gate_hist.arm_at => is_armed(armed_state, now).ret
        /\ now - gate_hist.arm_at > TTLTicks =>
             /\ ~is_armed(armed_state, now).ret
             /\ get_armed_time_remaining(armed_state, now, now).ret = 0

\* armed, never disarmed, and the clock is past armed_at + TTL
C4_Witness ==
    /\ gate_hist.op = "arm"
    /\ armed_state.armed
    /\ now - armed_state.armed_at > TTLTicks

\* C5: after a disarm and until the next arm, is_armed() is false at any
\* time, and a dangerous tool called then is refused.
C5_DisarmedStaysDisarmed ==
    gate_hist.op = "disarm" =>
        /\ ~is_armed(armed_state, now).ret
        /\ ~EffectivelyArmed(armed_state, now)
        /\ (Returned /\ call.name \in DANGEROUS_TOOLS) =>
               response.text = "SAFETY_arm_first"

\* disarmed in the very tick of the arm, and a dangerous tool refused
C5_Witness ==
    /\ gate_hist.op = "disarm"
    /\ gate_hist.arm_at = now
    /\ Returned
    /\ call.name \in DANGEROUS_TOOLS
    /\ response.text = "SAFETY_arm_first"

\* C6: check_confirmation allows exactly the tools that need no confirmation
\* and the calls whose confirm is the string CONFIRM, nothing trimmed or
\* folded; a confirmation-required call that passed the gate is answered by
\* the confirmation request exactly when the token is not CONFIRM.
C6_ConfirmationExact ==
    /\ \A name \in ToolNames : \A arguments \in ToolArgMaps :
          check_confirmation(name, arguments).allowed <=>
              \/ name \notin CONFIRMATION_REQUIRED_TOOLS
              \/ ("confirm" \in DOMAIN arguments /\ arguments["confirm"] = "CONFIRM")
    /\ (Returned /\ call.name \in CONFIRMATION_REQUIRED_TOOLS /\ call.armed) =>
          (response.text = "CONFIRMATION_REQUIRED" <=>
               ~("confirm" \in DOMAIN call.arguments
                   /\ call.arguments["confirm"] = "CONFIRM"))

\* an armed call of a confirmation-required tool with a padded token, refused
C6_Witness ==
    /\ Returned
    /\ call.name \in CONFIRMATION_REQUIRED_TOOLS
    /\ call.armed
    /\ Get(call.arguments, "confirm", "") = " CONFIRM"
    /\ response.text = "CONFIRMATION_REQUIRED"
    /\ popen_calls = 0

\* C7: the armed guard comes first and the first denial ends the call: a
\* dangerous tool called while not armed gets the armed-mode denial whatever
\* its token, the confirmation request is only ever sent to a call the
\* armed guard allowed, and a denied call has started nothing.
C7_ArmedGuardFirst ==
    /\ (Returned /\ call.name \in DANGEROUS_TOOLS /\ ~call.armed) =>
           response.text = "SAFETY_arm_first"
    /\ (Returned /\ response.text = "CONFIRMATION_REQUIRED") =>
           call.armed /\ call.name \in CONFIRMATION_REQUIRED_TOOLS
    /\ (Returned /\ response.text \in ArmDenials \cup {"CONFIRMATION_REQUIRED"}) =>
           /\ popen_calls = 0
           /\ process.state = "none"
           /\ response.result = NoResult

\* a confirmation-required tool, not armed and without the token
C7_Witness ==
    /\ Returned
    /\ call.name \in CONFIRMATION_REQUIRED_TOOLS
    /\ ~call.armed
    /\ "confirm" \notin DOMAIN call.arguments
    /\ response.text = "SAFETY_arm_first"

\* C8 as claimed: a missing or unstartable executable comes back from the
\* supervisor as a failure result; no exception leaves the supervisor.
C8_SpawnFailureIsData ==
    Returned => response.raised # "FileNotFoundError"

\* C9 as claimed: call_tool always returns a text; no exception leaves it.
C9_AlwaysATextResponse ==
    Returned => (response.raised = "" /\ response.text # "")

\* C10 as claimed: the timeout result of the supervisor carries every stderr
\* line the drain had queued when the deadline passed.
C10_TimeoutKeepsProgress ==
    [][ProgressTimeout =>
         /\ Len(response'.progress) = Len(stderr_queue)
         /\ \A i \in 1..Len(stderr_queue) :
                response'.progress[i] = ProgressMessage(stderr_queue[i])]_vars


TimedOut == Returned /\ response.result.errorMessage = "Command timed out"

\* the limit the caller asked for, in seconds: timeoutMinutes of
\* twincat_run_tcunit, the fixed five minutes of the other tools
RequestedSeconds ==
    IF call.name = TCUNIT_TOOL
    THEN Get(call.arguments, "timeoutMinutes", DEFAULT_TIMEOUT_MINUTES) * 60
    ELSE RUN_TIMEOUT

\* C11 as stated: a call whose process never exits comes back with the
\* timeout failure when the requested limit T is over, without an added
\* buffer, and the process has been killed.
C11_TimeoutAtRequestedLimit ==
    TimedOut => /\ process.waited = RequestedSeconds
                /\ process.state = "killed"

\* C11, amended: a twincat_run_tcunit call whose process never exits comes
\* back with the timeout failure when T minutes and 60 more seconds are over
\* (a call of another tool when 300 seconds are over), not before, and the
\* process has been killed without a grace period.
C11_TimeoutAfterBuffer ==
    /\ TimedOut =>
           /\ process.waited = RequestedSeconds
                                 + (IF call.name = TCUNIT_TOOL THEN 60 ELSE 0)
           /\ process.state = "killed"
    /\ pc \in {"run", "communicate"} /\ process.state = "running" =>
           process.waited <= RequestedSeconds
                               + (IF call.name = TCUNIT_TOOL THEN 60 ELSE 0)

C11_Witness ==
    /\ TimedOut
    /\ call.name = TCUNIT_TOOL
    /\ "timeoutMinutes" \in DOMAIN call.arguments
    /\ process.waited = 120


\* C12: when the process has exited in time and its stdout text is no JSON,
\* the supervisor raises nothing and returns a failure that carries the
\* stdout text and the diagnostic lines it captured: the stderr text of
\* run_tc_automation, the progress list of run_tc_automation_with_progress.
C12_InvalidJsonIsFailureWithText ==
    Returned /\ process.state = "exited" /\ process.stdout = "oops" =>
        /\ response.raised = ""
        /\ response.result.py = "dict"
        /\ response.result.success = FALSE
        /\ response.result.raw = "oops"
        /\ IF call.name = TCUNIT_TOOL
           THEN /\ response.result.hasProgressMessages
                /\ response.result.progressMessages = progress_messages
           ELSE response.result.stderr = process.script

C12_Witness ==
    /\ Returned /\ process.state = "exited" /\ process.stdout = "oops"
    /\ call.name = "twincat_build"
    /\ response.result.stderr = <<RawLine>>


\* C13: a twincat_run_tcunit call whose process wrote its N stderr lines and
\* exited comes back with all N lines, in the order written.
C13_AllLinesInOrder ==
    Returned /\ call.name = TCUNIT_TOOL /\ process.state = "exited" =>
        /\ Len(response.result.progressMessages) = Len(process.script)
        /\ \A i \in 1..Len(process.script) :
               response.result.progressMessages[i]
                   = ProgressMessage(strip(process.script[i]))


\* what C14 asks of one stderr line: the marker and the blank after it taken
\* off a tagged line, an untagged line left as the process wrote it
MarkerRemoved(l) ==
    IF startswith(l, ProgressTag)
    THEN lstrip(SubSeq(l, Len(ProgressTag) + 1, Len(l)))
    ELSE l

\* msgs is what C14 asks of some of the lines, in their order
RECURSIVE AsWritten(_, _)
AsWritten(msgs, lines) ==
    \/ msgs = <<>>
    \/ /\ lines # <<>>
       /\ \/ Head(msgs) = MarkerRemoved(Head(lines))
             /\ AsWritten(Tail(msgs), Tail(lines))
          \/ AsWritten(msgs, Tail(lines))

\* C14: every message of the progress sequence is a line the process wrote,
\* in the order written, without the marker when the line is tagged and
\* character for character when it is not.
C14_LinesKeptVerbatim ==
    AsWritten(progress_messages, process.script)


\* C15: every call that reaches a supervisor comes back, whatever the process
\* writes and whether or not it exits; until then it has no result, so it
\* gets exactly one; and when it is back the process has exited or has been
\* killed at the deadline.
C15_SupervisorReturnsOnce ==
    /\ (pc # "idle") ~> (pc = "idle")
    /\ [][pc' # "idle" => response' = Pending]_vars
    /\ [](Returned /\ popen_calls = 1 /\ response.result.errorMessage # "str(e)" =>
            \/ process.state = "exited"
            \/ process.state = "killed" /\ process.waited >= process.timeout)

C15_Witness ==
    /\ Returned
    /\ call.name = TCUNIT_TOOL
    /\ process.state = "exited"
    /\ process.written = MaxLines


\* what the function a coroutine ran returns, and the armed state it leaves,
\* when nothing else touches the armed state while it runs
Alone(k) ==
    CASE k.op = "arm_dangerous_operations" ->
             arm_dangerous_operations(k.start, k.reason, k.t)
      [] k.op = "disarm_dangerous_operations" ->
             disarm_dangerous_operations(k.start)
      [] k.op = "is_armed" -> is_armed(k.start, k.t)
      [] k.op = "get_armed_time_remaining" ->
             get_armed_time_remaining(k.start, k.t, k.t2)

\* C16: arm, disarm, is_armed and get_armed_time_remaining never interleave:
\* at most one of them is between its first statement and its return, each
\* returns and leaves what it would if it ran alone on the armed state it
\* found, and none finds armed_at cleared under it.
C16_GateOpsDoNotInterleave ==
    /\ Cardinality({i \in Tasks : Executing(i)}) <= 1
    /\ \A i \in Tasks :
          /\ tasks[i].exc = ""
          /\ tasks[i].at \in {"L84", "L100"} => armed_state.armed_at # NoTime
          /\ tasks[i].at = "done" =>
                /\ tasks[i].ret = Alone(tasks[i]).ret
                /\ tasks[i].end = Alone(tasks[i]).st

C16_Witness ==
    /\ tasks[1].op = "arm_dangerous_operations" /\ tasks[1].at = "done"
    /\ tasks[2].op = "get_armed_time_remaining" /\ tasks[2].at = "done"
    /\ tasks[2].t2 > tasks[2].t
    /\ tasks[2].ret = 0


\* some call_tool starts
AnyCall ==
    \E name \in ToolNames :
        \E arguments \in ArgsOf(name), script \in RouterScripts(name) :
            CallTool(name, arguments, script)

\* a call of the arm/disarm tool starts (and, having no process, completes)
ArmOrDisarmCall ==
    \E arguments \in ArgsOf(ARM_TOOL) : CallTool(ARM_TOOL, arguments, <<>>)

\* C17: at most one tool call is in progress: from its guards to its return
\* no other call_tool starts, arm and disarm included, so the call and the
\* armed state stay as they are while its process runs.
C17_OneCallAtATime ==
    /\ [](pc # "idle" => ~ENABLED AnyCall)
    /\ [][pc # "idle" => /\ call' = call
                         /\ armed_state' = armed_state
                         /\ gate_hist' = gate_hist]_vars

C17_Witness ==
    /\ pc = "run"
    /\ call.name = "twincat_build"
    /\ process.state = "running"
    /\ process.waited = RUN_TIMEOUT

\* C18 as stated: while the process of a call is running, arm or disarm can
\* complete without waiting for the process to finish.
C18_ArmCompletesWhileProcessRuns ==
    process.state = "running" => ENABLED ArmOrDisarmCall

\* C18, amended: while the process of a call is running, call_tool is still
\* waiting for it and no arm, disarm or guard of another call can start;
\* once call_tool is back they can start at once.
C18_ArmWaitsForTheCall ==
    /\ process.state = "running" =>
           /\ pc \in {"run", "communicate"}
           /\ ~ENABLED ArmOrDisarmCall
           /\ ~ENABLED AnyCall
    /\ pc = "idle" => ENABLED ArmOrDisarmCall

C18_Witness ==
    /\ pc = "communicate"
    /\ process.state = "running"
    /\ EffectivelyArmed(armed_state, now - 1)
    /\ ~EffectivelyArmed(armed_state, now)


ArmReturned ==
    Returned /\ call.name = ARM_TOOL /\ ~Get(call.arguments, "disarm", FALSE)

\* C20: arm is idempotent and restarts the window.  Applied a second time
\* at the same clock value, with the same reason, it leaves the state of
\* the first; and after an arm at t2, whatever the gate was before (armed
\* since t1 < t2 included), armed_at is t2, the reason is the new one, and
\* the gate is effectively armed up to t2 + TTL and no longer.
C20_ArmIdempotentAndRestarts ==
    /\ \A r \in ReasonValues, t \in 0..MaxClock :
           LET once == arm_dangerous_operations(armed_state, r, t).st IN
           /\ arm_dangerous_operations(once, r, t).st = once
           /\ once = [armed |-> TRUE, armed_at |-> t, reason |-> r]
           /\ \A u \in t..MaxClock : is_armed(once, u).ret <=> u - t <= TTLTicks
    /\ ArmReturned =>
           /\ armed_state.armed
           /\ armed_state.armed_at = gate_hist.arm_at
           /\ armed_state.armed_at >= call.since
           /\ armed_state.reason
                  = Get(call.arguments, "reason", "No reason provided")
           /\ is_armed(armed_state, now).ret <=> now - gate_hist.arm_at <= TTLTicks

\* a second arm, later than the first and with another reason, while the
\* first window was still open; the clock is now past the first window
C20_Witness ==
    /\ ArmReturned
    /\ call.armed
    /\ call.since # NoTime /\ call.since < armed_state.armed_at
    /\ armed_state.reason = "maintenance"
    /\ now - call.since > TTLTicks
    /\ is_armed(armed_state, now).ret


\* the last call_tool was a disarm of the arm/disarm tool
DisarmReturned ==
    Returned /\ call.name = ARM_TOOL /\ Get(call.arguments, "disarm", FALSE)

\* C21: disarm leaves armed false, armed_at and reason unset, whatever the
\* state it finds (disarmed, armed, armed and expired), and a second disarm
\* leaves what the first left.
C21_DisarmClearsAndIsIdempotent ==
    /\ LET once == disarm_dangerous_operations(armed_state).st IN
       /\ once = [armed |-> FALSE, armed_at |-> NoTime, reason |-> NoReason]
       /\ disarm_dangerous_operations(once).st = once
    /\ DisarmReturned =>
           /\ ~armed_state.armed
           /\ armed_state.armed_at = NoTime
           /\ armed_state.reason = NoReason

\* a disarm that found the gate armed and expired
C21_Witness ==
    /\ DisarmReturned
    /\ call.since # NoTime
    /\ ~call.armed
    /\ armed_state = [armed |-> FALSE, armed_at |-> NoTime, reason |-> NoReason]


\* C22: is_armed() is true exactly when armed is set and now - armed_at is
\* at most the TTL.  A true answer changes nothing; a query that finds the
\* TTL passed clears armed, armed_at and reason; and until a query runs the
\* passing of time leaves the stored state as it is.  A dangerous tool
\* queries is_armed: what it leaves is what the query left.
C22_IsArmedExactAndLazy ==
    /\ LET a == is_armed(armed_state, now) IN
       /\ a.ret <=> /\ armed_state.armed
                    /\ armed_state.armed_at # NoTime
                    /\ now - armed_state.armed_at <= TTLTicks
       /\ a.ret => a.st = armed_state
       /\ ~armed_state.armed => a.st = armed_state
       /\ armed_state.armed /\ ~a.ret =>
              a.st = [armed |-> FALSE, armed_at |-> NoTime, reason |-> NoReason]
    /\ call.name \in DANGEROUS_TOOLS =>
           /\ call.armed => armed_state.armed /\ armed_state.armed_at = call.since
           /\ ~call.armed =>
                  armed_state.armed_at = NoTime /\ ~armed_state.armed
    /\ call.name = ARM_TOOL /\ armed_state.armed =>
           armed_state.armed_at = gate_hist.arm_at

\* a dangerous tool found the gate armed with the TTL passed: the query
\* swept the state and the tool was refused
C22_Witness ==
    /\ Returned
    /\ call.name \in DANGEROUS_TOOLS
    /\ call.since # NoTime /\ ~call.armed
    /\ armed_state = [armed |-> FALSE, armed_at |-> NoTime, reason |-> NoReason]
    /\ response.text = "SAFETY_arm_first"


\* C23: get_armed_time_remaining() is never negative, and it is 0 whenever
\* the gate is not effectively armed when it is asked (never armed,
\* disarmed, or armed with the TTL passed), however late the clock is read
\* on line 100.
C23_RemainingNonNegative ==
    /\ \A t1 \in now..MaxClock :
           \A t2 \in t1..(t1 + 2 * TTLTicks + TicksPerSecond) :
               LET r == get_armed_time_remaining(armed_state, t1, t2).ret IN
               /\ r >= 0
               /\ ~EffectivelyArmed(armed_state, t1) => r = 0
               /\ ~EffectivelyArmed(armed_state, t2) => r = 0
    /\ \A i \in Tasks :
           tasks[i].op = "get_armed_time_remaining" /\ tasks[i].at = "done" =>
               /\ tasks[i].ret >= 0
               /\ \/ tasks[i].t2 # NoTime
                  \/ tasks[i].ret = 0
               /\ tasks[i].t2 # NoTime =>
                      /\ EffectivelyArmed(tasks[i].start, tasks[i].t)
                      /\ ~EffectivelyArmed(tasks[i].start, tasks[i].t2) =>
                             tasks[i].ret = 0

\* asked of a gate whose TTL has passed, the function swept the state and
\* returned 0
C23_Witness ==
    /\ tasks[1].op = "get_armed_time_remaining" /\ tasks[1].at = "done"
    /\ tasks[1].start.armed
    /\ tasks[1].t - tasks[1].start.armed_at > TTLTicks
    /\ ~tasks[1].end.armed
    /\ tasks[1].ret = 0


\* C24: every confirmation-required tool is a dangerous tool and some
\* dangerous tool needs no confirmation; the two lists are the same in every
\* state, so that a call is asked for its confirmation only if its tool is
\* on both and the gate let it through, and a dangerous tool that is not
\* confirmation-required goes through an armed gate without one.
C24_ConfirmationStrictSubset ==
    /\ CONFIRMATION_REQUIRED_TOOLS \subseteq DANGEROUS_TOOLS
    /\ DANGEROUS_TOOLS \ CONFIRMATION_REQUIRED_TOOLS # {}
    /\ Returned /\ response.text = "CONFIRMATION_REQUIRED" =>
           /\ call.name \in CONFIRMATION_REQUIRED_TOOLS
           /\ call.name \in DANGEROUS_TOOLS
           /\ call.armed
    /\ Returned /\ call.armed /\ call.name \in {"twincat_set_state", "twincat_write_var"} =>
           response.text \notin {"CONFIRMATION_REQUIRED", "SAFETY_arm_first"}
    /\ Returned /\ ~call.armed /\ call.name \in {"twincat_set_state", "twincat_write_var"} =>
           response.text = "SAFETY_arm_first"

\* twincat_write_var, dangerous and not confirmation-required, went through
\* an armed gate without a confirm argument
C24_Witness ==
    /\ Returned
    /\ call.name = "twincat_write_var"
    /\ call.armed
    /\ "confirm" \notin DOMAIN call.arguments
    /\ response.text = "tool output"


\* C25: when run_tc_automation_with_progress has returned, on completion or
\* on timeout, stderr_thread has finished: it holds no line and none is put
\* on the queue after the caller has read it.
C25_ThreadJoinedAtReturn ==
    Returned /\ call.name = TCUNIT_TOOL /\ process.state \in {"exited", "killed"} =>
        /\ thread = "done"
        /\ line = <<>>
        /\ stderr_queue = <<>>


\* a step that is a call of the arm/disarm tool: call_tool starts only when
\* idle, and the arm/disarm tool answers without a process
IsArmToolStep ==
    /\ pc = "idle" /\ pc' = "idle"
    /\ now' = now
    /\ call'.name = ARM_TOOL

\* C26: a step that is no call of the arm/disarm tool leaves the armed
\* state as it is, or clears all of it when the TTL has passed; it never
\* sets armed, and never touches armed_at or reason of a gate that is
\* within its TTL.
C26_ArmedStateFrame ==
    [][~IsArmToolStep =>
          \/ armed_state' = armed_state
          \/ /\ ~EffectivelyArmed(armed_state, now)
             /\ armed_state.armed
             /\ armed_state' = [armed |-> FALSE, armed_at |-> NoTime,
                                reason |-> NoReason]]_vars

\* a dangerous tool went through an armed gate, failed, and left the window
\* where it was; the gate is still within its TTL
C26_Witness ==
    /\ Returned
    /\ call.name = "twincat_activate"
    /\ call.armed
    /\ response.raised # ""
    /\ armed_state.armed
    /\ armed_state.armed_at = call.since
    /\ armed_state.armed_at < now
    /\ EffectivelyArmed(armed_state, now)


\* the stored state is armed and its TTL has passed: no query has swept it
ExpiredUnswept(st, t) ==
    st.armed /\ st.armed_at # NoTime /\ t - st.armed_at > TTLTicks

\* C27 as stated: asked while the armed state is expired and not yet swept,
\* get_armed_time_remaining() reports a stale value, other than 0.
C27_RemainingIsStale ==
    ExpiredUnswept(armed_state, now) =>
        get_armed_time_remaining(armed_state, now, now).ret # 0

\* C27, amended: get_armed_time_remaining() never reports a stale value.
\* Asked while the armed state is expired and not yet swept, it sweeps the
\* state itself (it calls is_armed() first) and returns 0.
C27_RemainingNeverStale ==
    /\ ExpiredUnswept(armed_state, now) =>
           \A t2 \in now..MaxClock :
               LET g == get_armed_time_remaining(armed_state, now, t2) IN
               /\ g.ret = 0
               /\ g.st = [armed |-> FALSE, armed_at |-> NoTime, reason |-> NoReason]
    /\ \A i \in Tasks :
           /\ tasks[i].op = "get_armed_time_remaining"
           /\ tasks[i].at = "done"
           /\ ExpiredUnswept(tasks[i].start, tasks[i].t)
           => /\ tasks[i].ret = 0
              /\ tasks[i].end = [armed |-> FALSE, armed_at |-> NoTime,
                                 reason |-> NoReason]

\* the gate was armed, nothing queried it until its TTL had passed, and
\* get_armed_time_remaining() was then the first to ask
C27_Witness ==
    /\ tasks[1].op = "arm_dangerous_operations" /\ tasks[1].at = "done"
    /\ tasks[2].op = "get_armed_time_remaining" /\ tasks[2].at = "done"
    /\ tasks[2].start = tasks[1].end
    /\ ExpiredUnswept(tasks[2].start, tasks[2].t)
    /\ tasks[2].ret = 0
    /\ ~armed_state.armed


\* the last call_tool went as far as a supervisor
SupervisorReturned ==
    Returned /\ call.name \in RunTools \cup {TCUNIT_TOOL}
             /\ response.text \notin ArmDenials \cup {"CONFIRMATION_REQUIRED"}

\* why the supervisor failed, as the run itself shows it
FailureCause ==
    IF popen_calls = 0 THEN "executable not found"
    ELSE IF process.state = "none" THEN "spawn error"
    ELSE IF process.state = "killed" THEN "timeout"
    ELSE IF process.stdout = "oops" THEN "unparsable output"
    ELSE "other"

\* C28: each of the four failure causes gives a failure result, and what
\* the result says of its cause tells it from every other cause: no two
\* runs that failed for different reasons return the same kind of error.
C28_FailureKindsDistinct ==
    SupervisorReturned =>
        /\ FailureCause # "other" =>
               /\ response.raised = ""
               /\ response.result.py = "dict"
               /\ ~response.result.success
        /\ response.result.errorMessage = "str(e)" <=> FailureCause = "spawn error"
        /\ response.result.errorMessage = "Command timed out" <=> FailureCause = "timeout"
        /\ response.result.errorMessage = "Invalid JSON output"
               <=> FailureCause = "unparsable output"


\* the first n dot-separated fields of s, dots included
RECURSIVE Fields(_, _)
Fields(s, n) ==
    IF s = <<>> THEN <<>>
    ELSE IF Head(s) = "."
         THEN IF n = 1 THEN <<>> ELSE <<".">> \o Fields(Tail(s), n - 1)
         ELSE <<Head(s)>> \o Fields(Tail(s), n)

\* the host an AMS net id designates: its first four fields
HostOf(net_id) == Fields(net_id, 4)

\* the call names a target, and the target is on another host than 127.0.0.1
OtherHost(arguments) ==
    /\ "amsNetId" \in DOMAIN arguments
    /\ arguments["amsNetId"] # <<>>
    /\ HostOf(arguments["amsNetId"]) # LocalPrefix

\* C29: twincat_run_tcunit is refused by the armed guard exactly when the
\* gate is not effectively armed and the call names a target on a host
\* other than 127.0.0.1.
C29_TcunitDeniedIffRemote ==
    Returned /\ call.name = TCUNIT_TOOL =>
        (response.text = "SAFETY_remote_tcunit_arm_first"
            <=> ~call.armed /\ OtherHost(call.arguments))

\* C30: arming requires a non-empty reason.  When a call of
\* twincat_arm_dangerous_operations that arms has returned, the stored
\* reason is not the empty string, and such a call made with an empty
\* reason has not left the gate armed.
C30_ArmedReasonNonEmpty ==
    ArmReturned =>
        /\ armed_state.armed => armed_state.reason # ""
        /\ Get(call.arguments, "reason", "No reason provided") = ""
               => ~armed_state.armed


\* C31: a call of twincat_arm_dangerous_operations passes no guard and
\* starts no process.  It answers ARMED or DISARMED, never a refusal of the
\* armed or the confirmation guard, whatever the gate was and with no
\* confirm argument; with disarm true it leaves the gate disarmed whatever
\* the reason, and with disarm false or absent it leaves the gate armed
\* with armed_at the time of the call.
C31_ArmToolUnguarded ==
    [][IsArmToolStep =>
          /\ popen_calls' = 0
          /\ process' = NoProcess
          /\ response'.raised = ""
          /\ IF Get(call'.arguments, "disarm", FALSE)
             THEN /\ response'.text = "DISARMED"
                  /\ armed_state' = [armed |-> FALSE, armed_at |-> NoTime,
                                     reason |-> NoReason]
             ELSE /\ response'.text = "ARMED"
                  /\ armed_state'.armed
                  /\ armed_state'.armed_at = now]_vars

\* a disarm call that carried a reason and found the gate armed, after the
\* clock had moved
C31_Witness ==
    /\ DisarmReturned
    /\ "reason" \in DOMAIN call.arguments
    /\ call.armed
    /\ call.since < now
    /\ "confirm" \notin DOMAIN call.arguments
    /\ ~armed_state.armed
    /\ popen_calls = 0


\* the step changes the armed state: what is stored, or whether the gate is
\* effectively armed (the TTL passing)
ArmedStateMoves ==
    \/ armed_state' # armed_state
    \/ EffectivelyArmed(armed_state', now') # EffectivelyArmed(armed_state, now)

\* a call_tool that check_confirmation refuses
IsConfirmationRefusal ==
    /\ pc = "idle" /\ pc' = "idle"
    /\ now' = now
    /\ response'.text = "CONFIRMATION_REQUIRED"

\* C32: check_confirmation depends on the tool and the arguments only.
\* Across any step that changes the armed state (arm, disarm, the TTL
\* passing, the sweep of an expired gate) it answers the same (allowed,
\* message) for every tool and argument map, and a call it refuses leaves
\* the armed state as it was.
C32_ConfirmationIgnoresGate ==
    [][/\ ArmedStateMoves =>
              \A n \in ToolNames : \A a \in ArgsOf(n) :
                  check_confirmation(n, a)' = check_confirmation(n, a)
       /\ IsConfirmationRefusal => armed_state' = armed_state]_vars

\* twincat_deploy refused by check_confirmation under an armed gate, which
\* it left as it was and whose TTL has passed since
C32_Witness ==
    /\ Returned
    /\ call.name = "twincat_deploy"
    /\ response.text = "CONFIRMATION_REQUIRED"
    /\ armed_state.armed
    /\ armed_state.armed_at = call.since
    /\ ~EffectivelyArmed(armed_state, now)


\* a dangerous tool that arrived under an effectively armed gate: started,
\* running, or returned
DangerousCallUnderArmedGate ==
    /\ call.name \in DANGEROUS_TOOLS
    /\ call.armed

\* C33: the armed window is multi-use.  A dangerous tool that found the
\* gate effectively armed was let through by the armed guard and, while its
\* process runs and after it has succeeded, failed or timed out, the gate
\* is armed with the armed_at it found; so as long as the clock is within
\* the TTL of that arm every further dangerous call passes the armed guard,
\* which again leaves the gate as it is.
C33_WindowIsMultiUse ==
    DangerousCallUnderArmedGate =>
        /\ response.text \notin ArmDenials
        /\ armed_state.armed
        /\ armed_state.armed_at = call.since
        /\ now - call.since <= TTLTicks =>
               \A n \in DANGEROUS_TOOLS : \A a \in ArgsOf(n) :
                   LET g == check_armed_for_tool(n, a, armed_state, now) IN
                   /\ g.allowed
                   /\ g.st = armed_state

\* twincat_restart ran into the supervisor deadline, time has passed since
\* the arm, and the gate is still within the TTL of that one arm
C33_Witness ==
    /\ Returned
    /\ call.name = "twincat_restart"
    /\ call.armed
    /\ popen_calls = 1
    /\ process.state = "killed"
    /\ gate_hist.op = "arm"
    /\ armed_state.armed_at = gate_hist.arm_at
    /\ armed_state.armed_at < now
    /\ now - armed_state.armed_at <= TTLTicks
    /\ check_armed_for_tool("twincat_write_var", <<>>, armed_state, now).allowed


\* C34: the armed guard is evaluated once, before the process starts.  A
\* dangerous tool whose process was started under an effectively armed gate
\* is never refused afterwards: while the process runs and after it has
\* ended, the stored armed state is the one the call found (no later query
\* has swept it, even when the TTL has passed meanwhile), the process ends
\* by its own exit or is killed at the supervisor deadline and never
\* earlier, and the response is the result of the process.
C34_GuardOnceBeforeSpawn ==
    /\ call.name \in DANGEROUS_TOOLS
    /\ call.armed
    /\ popen_calls = 1
    /\ process.state # "none"
    =>
    /\ armed_state.armed
    /\ armed_state.armed_at = call.since
    /\ process.state = "running" => pc = "run"
    /\ process.state = "killed" =>
           /\ process.waited >= process.timeout
           /\ response.result.errorMessage = "Command timed out"
    /\ process.state = "exited" => process.waited <= process.timeout
    /\ Returned =>
           /\ response.text \notin ArmDenials
           /\ response.result.py # "none"

\* the TTL passed while the process of twincat_activate was running; the
\* process ran to its own exit and its result was returned
C34_Witness ==
    /\ Returned
    /\ call.name = "twincat_activate"
    /\ call.armed
    /\ process.state = "exited"
    /\ process.waited < process.timeout
    /\ now - call.since > TTLTicks
    /\ armed_state.armed
    /\ response.text = "tool output"


\* what the supervisor makes of one stderr line it captures (lines 297, 319-322)
Captured(l) == ProgressMessage(strip(l))

\* msgs is what was captured of some of the lines, each line used at most
\* once and in the order of the lines
RECURSIVE IsSubsequence(_, _)
IsSubsequence(msgs, lines) ==
    \/ msgs = <<>>
    \/ /\ lines # <<>>
       /\ \/ /\ Head(msgs) = Captured(Head(lines))
             /\ IsSubsequence(Tail(msgs), Tail(lines))
          \/ IsSubsequence(msgs, Tail(lines))

Denied ==
    Returned /\ response.text \in ArmDenials \cup {"CONFIRMATION_REQUIRED"}

\* the name of the last call_tool is none that call_tool knows
UnknownCall ==
    call.name \notin {ARM_TOOL, TCUNIT_TOOL, ROUTES_TOOL} \cup RunTools

\* C36: one call_tool asks for at most one process.  A call refused by a
\* guard, a call of the arm/disarm tool and a call with an unknown name ask
\* for none, and the unknown name is answered with 'Unknown tool'.
C36_AtMostOneSpawn ==
    /\ popen_calls \in {0, 1}
    /\ Denied => popen_calls = 0 /\ process.state = "none"
    /\ call.name = ARM_TOOL => popen_calls = 0 /\ process.state = "none"
    /\ call.name # "" /\ UnknownCall =>
           /\ popen_calls = 0
           /\ process.state = "none"
           /\ pc = "idle"
           /\ response.text = "Unknown tool"
           /\ response.raised = ""

\* an unknown name called while the gate is effectively armed
C36_Witness ==
    /\ Returned
    /\ call.name = "twincat_bogus"
    /\ call.armed
    /\ response.text = "Unknown tool"
    /\ popen_calls = 0
    /\ process = NoProcess


\* a supervisor has returned after its process ended by itself
SupervisorSawExit ==
    /\ Returned
    /\ call.name \in RunTools \cup {TCUNIT_TOOL}
    /\ process.state = "exited"
    /\ process.returncode \in ExitStatuses

\* C37: the result of a supervisor does not depend on the exit status of
\* the process.  Whether the status is 0 or not, stdout that is non-empty
\* valid JSON gives the parsed payload as the result, and stdout that is
\* empty or blank gives a failure result (success = false).
C37_ResultIgnoresExitStatus ==
    SupervisorSawExit =>
        LET j == json_loads(process.stdout) IN
        /\ ~StripsToEmpty(process.stdout) /\ j.ok =>
               /\ response.result.py = j.py
               /\ response.result.success = j.success
               /\ response.result.errorMessage = ""
        /\ StripsToEmpty(process.stdout) =>
               /\ response.result.py = "dict"
               /\ ~response.result.success

=============================================================================
